---- MODULE Spec2Model ----
(***************************************************************************)
(* Two actor programs built on the ractor runtime:                         *)
(*   bin/ch1-calculator       one unnamed Calculator actor driven by a     *)
(*                            single sender (CalcSpec, CalcFairSpec)       *)
(*   bin/ch2-account-balance  AccountBalance actors registered by name,    *)
(*                            spawned lazily by concurrent callers         *)
(*                            (Spec, FairSpec)                             *)
(* The two programs are separate processes: each specification moves the   *)
(* variables of its own program and leaves the other's at their initial    *)
(* values.                                                                 *)
(***************************************************************************)
EXTENDS Integers, Sequences, FiniteSets, TLC

(***************************************************************************)
(* Bounds of the model.                                                    *)
(***************************************************************************)
\* Width of the machine integer standing for i64 (two's complement, Bits wide).
Bits == 8
\* Longest command script drawn for the calculator's sender.
MaxCmds == 3
\* Concurrent callers of the AccountBalance functions (caller 1 is the main task).
NumCallers == 2
\* Calls the callers make, in all, besides those of inner().
MaxCalls == 1
\* AccountBalance actors ever spawned (a terminated actor's name can be spawned again).
MaxActors == 3
\* Worker threads of the runtime: handler invocations that can run at once.
NumWorkers == 2

VARIABLES
    overflow_checks,  \* build profile: TRUE = arithmetic overflow panics, FALSE = it wraps
    script,           \* calculator: the commands the sender will send, in order
    calc_pc,          \* calculator: position of inner()
    calc_next,        \* calculator: index in script of the next command to send
    calc_status,      \* calculator: actor status
    value,            \* calculator: CalculatorState.value
    calc_mailbox,     \* calculator: the actor's mailbox
    calc_log,         \* calculator: one record per handler invocation, in order
    exit_code,        \* calculator: process exit code, -1 while running
    mode,             \* account: "main" = caller 1 runs inner(), "free" = every caller is free
    registry,         \* account: the runtime's name registry, a set of [name, actor]
    actors,           \* account: per actor id, its status, name, balance, mailbox, handler
    callers,          \* account: per caller, the call it is in and its local variables
    done,             \* account: per caller, the calls it completed and their results
    log,              \* account: per actor, every message enqueued to it, in order
    replies           \* account: every write to a reply port

calcVars == <<script, calc_pc, calc_next, calc_status, value, calc_mailbox,
              calc_log, exit_code>>
acctVars == <<mode, registry, actors, callers, done, log, replies>>
vars == <<overflow_checks, calcVars, acctVars>>

(***************************************************************************)
(* The state of a program before it has made a step.                       *)
(***************************************************************************)
Callers == 1 .. NumCallers
ActorIds == 1 .. MaxActors
\* an absent actor handle (Option::None)
NoActor == 0

NoPayload == [kind |-> "None", value |-> 0]

UnbornActor ==
    [status |-> "unborn", name |-> "", balance |-> 0, mailbox |-> <<>>, inflight |-> <<>>]
IdleCaller ==
    [pc |-> "idle", op |-> "none", account |-> "", payload |-> NoPayload,
     actor |-> NoActor, calls |-> 0, port |-> "none", reply |-> 0]

AcctStart ==
    /\ mode = "free"
    /\ registry = {}
    /\ actors = [a \in ActorIds |-> UnbornActor]
    /\ callers = [c \in Callers |-> IdleCaller]
    /\ done = [c \in Callers |-> <<>>]
    /\ log = [a \in ActorIds |-> <<>>]
    /\ replies = {}

CalcStart ==
    /\ calc_pc = "spawn"
    /\ calc_next = 1
    /\ calc_status = "unborn"
    /\ value = 0
    /\ calc_mailbox = <<>>
    /\ calc_log = <<>>
    /\ exit_code = -1

(***************************************************************************)
(* i64 arithmetic.                                                         *)
(***************************************************************************)
Modulus == 2 ^ Bits
MinI64 == -(2 ^ (Bits - 1))
MaxI64 == 2 ^ (Bits - 1) - 1

InRange(x) == x >= MinI64 /\ x <= MaxI64
\* two's complement wrap-around of a mathematical integer
Wrap(x) == ((x - MinI64) % Modulus) + MinI64
Abs(x) == IF x < 0 THEN -x ELSE x
\* Rust's integer division: the quotient truncated toward zero
TruncDiv(a, b) ==
    IF (a < 0) = (b < 0) THEN Abs(a) \div Abs(b) ELSE -(Abs(a) \div Abs(b))

\* The outcome of an arithmetic operator of the code whose mathematical
\* result is x: a build with overflow checks panics when x does not fit,
\* a build without them keeps the wrapped value.
Arith(x, checks) ==
    IF InRange(x) THEN [fault |-> FALSE, value |-> x]
    ELSE IF checks THEN [fault |-> TRUE, value |-> 0]
    ELSE [fault |-> FALSE, value |-> Wrap(x)]

(***************************************************************************)
(* ch1-calculator                                                          *)
(***************************************************************************)
Add(v) == [op |-> "Add", value |-> v]
Sub(v) == [op |-> "Sub", value |-> v]
Mul(v) == [op |-> "Mul", value |-> v]
Div(v) == [op |-> "Div", value |-> v]

\* the commands inner() sends
MainScript == <<Add(8), Div(2), Div(0), Mul(3), Sub(9)>>

\* commands drawn for the other scripts
Commands ==
    {Add(8), Div(2), Div(0), Mul(3), Sub(9),
     Add(MaxI64), Add(MinI64), Div(-1), Mul(-3), Div(-3)}

RECURSIVE SeqsUpTo(_, _)
SeqsUpTo(S, n) ==
    IF n = 0 THEN {<<>>}
    ELSE LET shorter == SeqsUpTo(S, n - 1)
         IN shorter \cup {Append(s, x) : s \in {t \in shorter : Len(t) = n - 1}, x \in S}

Scripts == {MainScript} \cup SeqsUpTo(Commands, MaxCmds)

NoEvent == [type |-> "None", value |-> 0]

\* handle_command without its Div { value: 0 } arm
handle_command_unchecked(command) ==
    CASE command.op = "Add" -> [ok |-> TRUE, event |-> [type |-> "DidAdd", value |-> command.value]]
      [] command.op = "Sub" -> [ok |-> TRUE, event |-> [type |-> "DidSub", value |-> command.value]]
      [] command.op = "Mul" -> [ok |-> TRUE, event |-> [type |-> "DidMul", value |-> command.value]]
      [] command.op = "Div" -> [ok |-> TRUE, event |-> [type |-> "DidDiv", value |-> command.value]]

\* CalculatorState::handle_command: the event of a command, or DivisionByZero
handle_command(command) ==
    CASE command.op = "Add" -> [ok |-> TRUE, event |-> [type |-> "DidAdd", value |-> command.value]]
      [] command.op = "Sub" -> [ok |-> TRUE, event |-> [type |-> "DidSub", value |-> command.value]]
      [] command.op = "Mul" -> [ok |-> TRUE, event |-> [type |-> "DidMul", value |-> command.value]]
      [] command.op = "Div" /\ command.value = 0 -> [ok |-> FALSE, event |-> NoEvent]
      [] command.op = "Div" /\ command.value # 0 -> [ok |-> TRUE, event |-> [type |-> "DidDiv", value |-> command.value]]

\* handle_event with DidSub adding its value
handle_event_sub_adds(v, event, checks) ==
    CASE event.type = "DidAdd" -> Arith(v + event.value, checks)
      [] event.type = "DidSub" -> Arith(v + event.value, checks)
      [] event.type = "DidMul" -> Arith(v * event.value, checks)
      [] event.type = "DidDiv" ->
            IF event.value = 0 \/ (v = MinI64 /\ event.value = -1)
            THEN [fault |-> TRUE, value |-> 0]
            ELSE [fault |-> FALSE, value |-> TruncDiv(v, event.value)]

\* CalculatorState::handle_event: the new value, or a fault (panic).  A
\* division overflows only for MinI64 / -1, and then panics in every build.
handle_event(v, event, checks) ==
    CASE event.type = "DidAdd" -> Arith(v + event.value, checks)
      [] event.type = "DidSub" -> Arith(v - event.value, checks)
      [] event.type = "DidMul" -> Arith(v * event.value, checks)
      [] event.type = "DidDiv" ->
            IF event.value = 0 \/ (v = MinI64 /\ event.value = -1)
            THEN [fault |-> TRUE, value |-> 0]
            ELSE [fault |-> FALSE, value |-> TruncDiv(v, event.value)]

\* Calculator::handle returning the domain error to the runtime
\* (Err(err) => Err(err.into())), which terminates the actor
CalcHandleOutcomePropagating(v, command, checks) ==
    LET r == handle_command(command) IN
    IF ~r.ok
    THEN [result |-> "fault", event |-> NoEvent, value |-> v]
    ELSE LET e == handle_event(v, r.event, checks) IN
         IF e.fault
         THEN [result |-> "fault", event |-> r.event, value |-> v]
         ELSE [result |-> "ok", event |-> r.event, value |-> e.value]

\* Calculator::handle: what one invocation does to the state value.
\*   result "ok"       the handler returned Ok(()), after applying the event
\*   result "rejected" the command was rejected, logged, and Ok(()) returned
\*   result "fault"    the handler panicked
CalcHandleOutcome(v, command, checks) ==
    LET r == handle_command(command) IN
    IF ~r.ok
    THEN [result |-> "rejected", event |-> NoEvent, value |-> v]
    ELSE LET e == handle_event(v, r.event, checks) IN
         IF e.fault
         THEN [result |-> "fault", event |-> r.event, value |-> v]
         ELSE [result |-> "ok", event |-> r.event, value |-> e.value]

DrainMarker == [op |-> "Drain", value |-> 0]

CalcInit ==
    /\ overflow_checks \in BOOLEAN
    /\ script \in Scripts
    /\ CalcStart
    /\ AcctStart

\* inner(): Actor::spawn(None, Calculator, 0), pre_start included
CalcSpawn ==
    /\ calc_pc = "spawn"
    /\ calc_status' = "running"
    /\ value' = 0
    /\ calc_pc' = "send"
    /\ UNCHANGED <<overflow_checks, acctVars, script, calc_next, calc_mailbox, calc_log, exit_code>>

\* inner(): actor.send_message(command)?  for the next command of the script
CalcSend ==
    /\ calc_pc = "send"
    /\ calc_next <= Len(script)
    /\ IF calc_status = "running"
       THEN /\ calc_mailbox' = Append(calc_mailbox, script[calc_next])
            /\ calc_next' = calc_next + 1
            /\ UNCHANGED <<calc_pc, exit_code>>
       ELSE \* the actor has terminated: the send fails and `?` leaves inner()
            /\ calc_pc' = "done"
            /\ exit_code' = 1
            /\ UNCHANGED <<calc_mailbox, calc_next>>
    /\ UNCHANGED <<overflow_checks, acctVars, script, calc_status, value, calc_log>>

\* a drain that stops the actor at once, as stop() does, dropping its mailbox
CalcDrainStopping ==
    /\ calc_pc = "send"
    /\ calc_next > Len(script)
    /\ IF calc_status = "running"
       THEN /\ calc_status' = "stopped"
            /\ calc_mailbox' = <<>>
            /\ calc_pc' = "await"
            /\ UNCHANGED exit_code
       ELSE /\ calc_pc' = "done"
            /\ exit_code' = 1
            /\ UNCHANGED <<calc_status, calc_mailbox>>
    /\ UNCHANGED <<overflow_checks, acctVars, script, calc_next, value, calc_log>>

\* inner(): actor.drain()?
CalcDrain ==
    /\ calc_pc = "send"
    /\ calc_next > Len(script)
    /\ IF calc_status = "running"
       THEN /\ calc_status' = "draining"
            /\ calc_mailbox' = Append(calc_mailbox, DrainMarker)
            /\ calc_pc' = "await"
            /\ UNCHANGED exit_code
       ELSE /\ calc_pc' = "done"
            /\ exit_code' = 1
            /\ UNCHANGED <<calc_status, calc_mailbox>>
    /\ UNCHANGED <<overflow_checks, acctVars, script, calc_next, value, calc_log>>

\* inner(): handle.await?; Ok(())  and main(): ExitCode::SUCCESS
CalcAwait ==
    /\ calc_pc = "await"
    /\ calc_status = "stopped"
    /\ calc_pc' = "done"
    /\ exit_code' = 0
    /\ UNCHANGED <<overflow_checks, acctVars, script, calc_next, calc_status, value, calc_mailbox, calc_log>>

\* The actor takes the head of its mailbox and runs Calculator::handle on it.
\* A panic of the handler terminates the actor and drops its mailbox.
CalcHandle ==
    /\ calc_status \in {"running", "draining"}
    /\ calc_mailbox # <<>>
    /\ Head(calc_mailbox) # DrainMarker
    /\ LET command == Head(calc_mailbox)
           o == CalcHandleOutcome(value, command, overflow_checks)
       IN /\ value' = o.value
          /\ calc_log' = Append(calc_log,
                 [command |-> command, result |-> o.result, event |-> o.event,
                  before |-> value, after |-> o.value])
          /\ IF o.result = "fault"
             THEN calc_status' = "stopped" /\ calc_mailbox' = <<>>
             ELSE calc_status' = calc_status /\ calc_mailbox' = Tail(calc_mailbox)
    /\ UNCHANGED <<overflow_checks, acctVars, script, calc_pc, calc_next, exit_code>>

\* The actor reaches the drain marker: every earlier message is handled, it stops.
CalcStop ==
    /\ calc_status = "draining"
    /\ calc_mailbox # <<>>
    /\ Head(calc_mailbox) = DrainMarker
    /\ calc_status' = "stopped"
    /\ calc_mailbox' = <<>>
    /\ UNCHANGED <<overflow_checks, acctVars, script, calc_pc, calc_next, value, calc_log, exit_code>>

CalcNext ==
    \/ CalcSpawn
    \/ CalcSend
    \/ CalcDrain
    \/ CalcAwait
    \/ CalcHandle
    \/ CalcStop

CalcSpec == CalcInit /\ [][CalcNext]_vars

\* The runtime schedules the actor's task whenever it has a message to take,
\* and the main task whenever it can go on.
CalcFairSpec ==
    /\ CalcSpec
    /\ WF_vars(CalcHandle)
    /\ WF_vars(CalcStop)
    /\ WF_vars(CalcSpawn \/ CalcSend \/ CalcDrain \/ CalcAwait)

(***************************************************************************)
(* ch2-account-balance                                                     *)
(***************************************************************************)
\* the account numbers inner() uses
Accounts == {"ACCOUNT1", "ACCOUNT2"}

AmountDeposited(v) == [kind |-> "AmountDeposited", value |-> v]
AmountWithdrawn(v) == [kind |-> "AmountWithdrawn", value |-> v]
FeeApplied(v) == [kind |-> "FeeApplied", value |-> v]

\* the payloads the free callers draw for apply_event; the deposit overflows
\* any balance above zero
Payloads == {AmountDeposited(MaxI64), AmountWithdrawn(100), FeeApplied(5)}

\* AccountBalanceArgs::new
AccountBalanceArgs(account_number) ==
    [initial_balance |-> 0, account_number |-> account_number]

\* a key that leaves out the account number
via_type_only(account_number) == "ch2_account_balance::AccountBalance"

\* AccountBalance::via: the registry key of an account number
via(account_number) == "ch2_account_balance::AccountBalance" \o "/" \o account_number

\* the runtime's registry lookup: the actor registered under a name, if any
RegistryLookup(reg, name) ==
    LET hits == {e \in reg : e.name = name}
    IN IF hits = {} THEN NoActor ELSE (CHOOSE e \in hits : TRUE).actor

\* a lookup that ignores the account number: any registered actor
where_is_any(reg, account_number) ==
    IF reg = {} THEN NoActor ELSE (CHOOSE e \in reg : TRUE).actor

\* AccountBalance::where_is
where_is(reg, account_number) == RegistryLookup(reg, via(account_number))

\* a registration that never refuses
CanRegisterAlways(reg, name) == TRUE

\* the runtime's registration of a spawned actor's name: refused when the
\* name is taken
CanRegister(reg, name) == \A e \in reg : e.name # name

\* an actor id no actor has used yet
FreshActor == CHOOSE a \in ActorIds : actors[a].status = "unborn"
HasFreshActor == \E a \in ActorIds : actors[a].status = "unborn"

\* the state pre_start gives a spawned actor
StartedActor(name, args) ==
    [status |-> "running", name |-> name, balance |-> args.initial_balance,
     mailbox |-> <<>>, inflight |-> <<>>]

Ok(some, v) == [kind |-> "Ok", some |-> some, value |-> v]
Err(kind) == [kind |-> kind, some |-> FALSE, value |-> 0]

\* the record of a completed call
Completed(c, result, actor) ==
    [op |-> callers[c].op, account |-> callers[c].account,
     payload |-> callers[c].payload, result |-> result, actor |-> actor]

\* the caller's state after its call returned
Returned(c) ==
    [callers[c] EXCEPT !.pc = "idle", !.op = "none", !.account = "",
                       !.payload = NoPayload, !.actor = NoActor,
                       !.port = "none", !.reply = 0]

ApplyEventCall(n, p) == [op |-> "apply_event", account |-> n, payload |-> p]
GetBalanceCall(n) == [op |-> "get_balance", account |-> n, payload |-> NoPayload]
SpawnCall(n) == [op |-> "spawn", account |-> n, payload |-> NoPayload]

\* the calls of inner(), in order; `?` ends inner() at the first error
MainCalls ==
    <<ApplyEventCall("ACCOUNT1", AmountDeposited(100)),
      ApplyEventCall("ACCOUNT1", FeeApplied(5)),
      GetBalanceCall("ACCOUNT1"),
      GetBalanceCall("ACCOUNT2")>>

\* the calls a free caller chooses from
FreeCalls ==
    {ApplyEventCall(n, p) : n \in Accounts, p \in Payloads}
        \cup {GetBalanceCall(n) : n \in Accounts}
        \cup {SpawnCall(n) : n \in Accounts}

IsMain(c) == mode = "main" /\ c = 1

\* calls started so far by the free callers
RECURSIVE FreeStarted(_)
FreeStarted(S) ==
    IF S = {} THEN 0
    ELSE LET c == CHOOSE x \in S : TRUE
         IN (IF IsMain(c) THEN 0 ELSE callers[c].calls) + FreeStarted(S \ {c})

\* Callers are interchangeable: of the free callers, one makes its first
\* call only when those of smaller number have made theirs.
InTurn(c) ==
    \A d \in Callers : (d < c /\ ~IsMain(d)) => callers[d].calls > 0

\* the calls caller c may start now
NextCalls(c) ==
    IF callers[c].pc # "idle" THEN {}
    ELSE IF IsMain(c)
    THEN IF /\ callers[c].calls < Len(MainCalls)
            /\ \A i \in 1 .. Len(done[c]) : done[c][i].result.kind = "Ok"
         THEN {MainCalls[callers[c].calls + 1]}
         ELSE {}
    ELSE IF FreeStarted(Callers) < MaxCalls /\ InTurn(c) THEN FreeCalls ELSE {}

AcctInit ==
    /\ overflow_checks \in BOOLEAN
    /\ script = <<>>
    /\ CalcStart
    /\ mode \in {"main", "free"}
    /\ registry = {}
    /\ actors = [a \in ActorIds |-> UnbornActor]
    /\ callers = [c \in Callers |-> IdleCaller]
    /\ done = [c \in Callers |-> <<>>]
    /\ log = [a \in ActorIds |-> <<>>]
    /\ replies = {}

\* ActorRef::send_message: appends to the mailbox of a running actor
CanSend(a) == actors[a].status = "running"
\* an enqueue that appends the message twice
EnqueueTwice(mailbox, m) == mailbox \o <<m, m>>
\* an enqueue at the head of the mailbox
EnqueueFirst(mailbox, m) == <<m>> \o mailbox
Enqueue(mailbox, m) == Append(mailbox, m)

\* a spawn that takes over a name already registered
SpawnOutcomeReplacing(args) ==
    LET name == via(args.account_number) IN
    [ok |-> TRUE, actor |-> FreshActor,
     registry |-> {e \in registry : e.name # name}
                      \cup {[name |-> name, actor |-> FreshActor]},
     actors |-> [actors EXCEPT ![FreshActor] = StartedActor(name, args)]]

\* AccountBalance::spawn(args): Actor::spawn under the name via(account_number),
\* pre_start included.  The outcome: the registry, the actors and the handle.
SpawnOutcome(args) ==
    LET name == via(args.account_number) IN
    IF CanRegister(registry, name)
    THEN [ok |-> TRUE, actor |-> FreshActor,
          registry |-> registry \cup {[name |-> name, actor |-> FreshActor]},
          actors |-> [actors EXCEPT ![FreshActor] = StartedActor(name, args)]]
    ELSE [ok |-> FALSE, actor |-> NoActor, registry |-> registry, actors |-> actors]

\* AccountBalance::apply_event, line 110: Self::where_is(&event.account_number)
ApplyEventLookup(c, account_number, payload) ==
    /\ ApplyEventCall(account_number, payload) \in NextCalls(c)
    /\ LET actor == where_is(registry, account_number) IN
       callers' = [callers EXCEPT ![c] =
           [@ EXCEPT !.pc = IF actor = NoActor THEN "spawn" ELSE "send",
                     !.op = "apply_event", !.account = account_number,
                     !.payload = payload, !.actor = actor, !.calls = @ + 1]]
    /\ UNCHANGED <<overflow_checks, calcVars, mode, registry, actors, done, log, replies>>

\* AccountBalance::apply_event, line 113: Self::spawn(..).await?.0 on a miss
ApplyEventSpawn(c) ==
    /\ callers[c].pc = "spawn"
    /\ HasFreshActor
    /\ LET o == SpawnOutcome(AccountBalanceArgs(callers[c].account)) IN
       /\ registry' = o.registry
       /\ actors' = o.actors
       /\ IF o.ok
          THEN /\ callers' = [callers EXCEPT ![c].pc = "send", ![c].actor = o.actor]
               /\ UNCHANGED done
          ELSE /\ callers' = [callers EXCEPT ![c] = Returned(c)]
               /\ done' = [done EXCEPT ![c] = Append(@, Completed(c, Err("SpawnErr"), NoActor))]
    /\ UNCHANGED <<overflow_checks, calcVars, mode, log, replies>>

ApplyEventMessage(c) ==
    [type |-> "ApplyEvent", account |-> callers[c].account,
     payload |-> callers[c].payload, from |-> c, call |-> callers[c].calls]

\* AccountBalance::apply_event, lines 116-117: actor.send_message(..)?; Ok(())
ApplyEventSend(c) ==
    /\ callers[c].pc = "send"
    /\ LET a == callers[c].actor IN
       IF CanSend(a)
       THEN /\ actors' = [actors EXCEPT ![a].mailbox = Enqueue(@, ApplyEventMessage(c))]
            /\ log' = [log EXCEPT ![a] = Append(@, ApplyEventMessage(c))]
            /\ done' = [done EXCEPT ![c] = Append(@, Completed(c, Ok(FALSE, 0), a))]
       ELSE /\ done' = [done EXCEPT ![c] = Append(@, Completed(c, Err("SendErr"), a))]
            /\ UNCHANGED <<actors, log>>
    /\ callers' = [callers EXCEPT ![c] = Returned(c)]
    /\ UNCHANGED <<overflow_checks, calcVars, mode, registry, replies>>

\* AccountBalance::get_balance, line 121: where_is, and Ok(None) on a miss
GetBalanceLookup(c, account_number) ==
    /\ GetBalanceCall(account_number) \in NextCalls(c)
    /\ LET actor == where_is(registry, account_number)
           started == [callers[c] EXCEPT !.pc = "call", !.op = "get_balance",
                                         !.account = account_number,
                                         !.actor = actor, !.calls = @ + 1]
       IN IF actor # NoActor
          THEN /\ callers' = [callers EXCEPT ![c] = started]
               /\ UNCHANGED done
          ELSE /\ callers' = [callers EXCEPT ![c] = [Returned(c) EXCEPT !.calls = @ + 1]]
               /\ done' = [done EXCEPT ![c] = Append(@,
                     [op |-> "get_balance", account |-> account_number,
                      payload |-> NoPayload, result |-> Ok(FALSE, 0), actor |-> NoActor])]
    /\ UNCHANGED <<overflow_checks, calcVars, mode, registry, actors, log, replies>>

GetBalanceMessage(c) ==
    [type |-> "GetBalance", account |-> callers[c].account,
     payload |-> NoPayload, from |-> c, call |-> callers[c].calls]

\* call_t!(actor, GetBalance, RPC_TIMEOUT_MS): the message, with a fresh reply
\* port, is sent; the caller then waits for the port
CallSend(c) ==
    /\ callers[c].pc = "call"
    /\ LET a == callers[c].actor IN
       IF CanSend(a)
       THEN /\ actors' = [actors EXCEPT ![a].mailbox = Enqueue(@, GetBalanceMessage(c))]
            /\ log' = [log EXCEPT ![a] = Append(@, GetBalanceMessage(c))]
            /\ callers' = [callers EXCEPT ![c].pc = "wait", ![c].port = "pending"]
            /\ UNCHANGED done
       ELSE /\ callers' = [callers EXCEPT ![c] = Returned(c)]
            /\ done' = [done EXCEPT ![c] = Append(@, Completed(c, Err("SendErr"), a))]
            /\ UNCHANGED <<actors, log>>
    /\ UNCHANGED <<overflow_checks, calcVars, mode, registry, replies>>

\* a call without its timeout
CallOutcomesNoTimeout(c) ==
    CASE callers[c].port = "replied" -> {Ok(TRUE, callers[c].reply)}
      [] callers[c].port = "dropped" -> {Err("ChannelClosed")}
      [] OTHER -> {}

\* what a caller waiting in call_t! can return with: the reply once written,
\* a closed channel once the port was dropped unanswered, and the timeout
\* as long as neither happened
CallOutcomes(c) ==
    CASE callers[c].port = "replied" -> {Ok(TRUE, callers[c].reply)}
      [] callers[c].port = "dropped" -> {Err("ChannelClosed")}
      [] callers[c].port = "pending" -> {Err("Timeout")}
      [] OTHER -> {}

\* call_t! returns (.map(Some) on the reply, line 122)
CallReturn(c) ==
    /\ callers[c].pc = "wait"
    /\ \E r \in CallOutcomes(c) :
          done' = [done EXCEPT ![c] = Append(@, Completed(c, r, callers[c].actor))]
    /\ callers' = [callers EXCEPT ![c] = Returned(c)]
    /\ UNCHANGED <<overflow_checks, calcVars, mode, registry, actors, log, replies>>

\* AccountBalance::spawn called directly; the caller drops the handle
Spawn(c, account_number) ==
    /\ SpawnCall(account_number) \in NextCalls(c)
    /\ HasFreshActor
    /\ LET o == SpawnOutcome(AccountBalanceArgs(account_number)) IN
       /\ registry' = o.registry
       /\ actors' = o.actors
       /\ done' = [done EXCEPT ![c] = Append(@,
             [op |-> "spawn", account |-> account_number, payload |-> NoPayload,
              result |-> IF o.ok THEN Ok(FALSE, 0) ELSE Err("SpawnErr"),
              actor |-> o.actor])]
    /\ callers' = [callers EXCEPT ![c].calls = @ + 1]
    /\ UNCHANGED <<overflow_checks, calcVars, mode, log, replies>>

\* handler invocations in flight, over all actors
InFlight(a) == Len(actors[a].inflight)
RECURSIVE SumInFlight(_)
SumInFlight(S) ==
    IF S = {} THEN 0
    ELSE LET a == CHOOSE x \in S : TRUE IN InFlight(a) + SumInFlight(S \ {a})

\* a message loop that does not await the invocation it started
CanBeginHandleOverlapping(a) ==
    /\ actors[a].status = "running"
    /\ actors[a].mailbox # <<>>

\* whether the runtime may start a handler invocation of actor a: the actor's
\* message loop awaits one invocation before it takes the next message
CanBeginHandle(a) ==
    /\ actors[a].status = "running"
    /\ actors[a].mailbox # <<>>
    /\ actors[a].inflight = <<>>

\* a mailbox that hands out its newest message
TakeNewest(mailbox) ==
    [message |-> mailbox[Len(mailbox)], rest |-> SubSeq(mailbox, 1, Len(mailbox) - 1)]

\* the message an invocation takes, and the mailbox it leaves
TakeMessage(mailbox) == [message |-> Head(mailbox), rest |-> Tail(mailbox)]

\* the actor's message loop takes the next message and calls handle on it
BeginHandle(a) ==
    /\ CanBeginHandle(a)
    /\ SumInFlight(ActorIds) < NumWorkers
    /\ LET t == TakeMessage(actors[a].mailbox) IN
       actors' = [actors EXCEPT ![a].mailbox = t.rest,
                                ![a].inflight = Append(@, t.message)]
    /\ UNCHANGED <<overflow_checks, calcVars, mode, registry, callers, done, log, replies>>

\* AccountBalance::handle, lines 76-86: the balance after an event's payload
ApplyPayload(balance, payload, checks) ==
    CASE payload.kind = "AmountDeposited" -> Arith(balance + payload.value, checks)
      [] payload.kind = "AmountWithdrawn" -> Arith(balance - payload.value, checks)
      [] payload.kind = "FeeApplied" -> Arith(balance - payload.value, checks)

\* the reply ports of the GetBalance messages in a sequence of messages
PortsIn(msgs) ==
    {<<msgs[i].from, msgs[i].call>> : i \in {j \in 1 .. Len(msgs) : msgs[j].type = "GetBalance"}}

\* whether caller c still waits for the port of its call number n
Waits(c, n) ==
    callers[c].pc = "wait" /\ callers[c].calls = n /\ callers[c].port = "pending"

\* a GetBalance arm that resets the balance it reports
GetBalanceOutcomeResetting(balance) == [balance |-> 0, reply |-> balance]

\* AccountBalance::handle, lines 89-92, the GetBalance arm: the state it
\* leaves and the value it writes to the reply port (reply_port.send takes
\* the port by value: one write)
GetBalanceOutcome(balance) == [balance |-> balance, reply |-> balance]

\* a GetBalance arm that returns the failure of its write as its own error
GetBalanceResultPropagating(sent) == IF sent THEN "Ok" ELSE "Err"

\* AccountBalance::handle, lines 91 and 95: `let _ =` drops the result of
\* reply_port.send (sent: whether the write reached a waiting reader) and the
\* handler returns Ok(())
GetBalanceResult(sent) == "Ok"

\* AccountBalance::handle returns for the message in flight.
\*   ApplyEvent: the balance changes by the payload; an arithmetic overflow
\*     in a build with overflow checks panics.
\*   GetBalance: reply_port.send(state.balance), the result of the send ignored.
\* When the invocation panics or returns an error the actor terminates, its
\* name is unregistered, its mailbox is dropped with the reply ports in it.
EndHandle(a) ==
    /\ actors[a].inflight # <<>>
    /\ LET m == Head(actors[a].inflight)
           pos == CHOOSE i \in 1 .. Len(log[a]) :
                      log[a][i].from = m.from /\ log[a][i].call = m.call
           isEvent == m.type = "ApplyEvent"
           r == ApplyPayload(actors[a].balance, m.payload, overflow_checks)
           g == GetBalanceOutcome(actors[a].balance)
           sent == ~isEvent /\ Waits(m.from, m.call)
           failed == IF isEvent THEN r.fault ELSE GetBalanceResult(sent) # "Ok"
       IN /\ IF failed
             THEN /\ actors' = [actors EXCEPT ![a].status = "stopped",
                                              ![a].mailbox = <<>>,
                                              ![a].inflight = <<>>]
                  /\ registry' = {e \in registry : e.actor # a}
             ELSE /\ actors' = [actors EXCEPT
                        ![a].balance = IF isEvent THEN r.value ELSE g.balance,
                        ![a].inflight = Tail(@)]
                  /\ UNCHANGED registry
          /\ replies' = IF isEvent THEN replies
                        ELSE replies \cup
                               {[actor |-> a, pos |-> pos, value |-> g.reply,
                                 to |-> m.from, call |-> m.call, delivered |-> sent]}
          /\ callers' = [c \in Callers |->
                IF sent /\ c = m.from
                THEN [callers[c] EXCEPT !.port = "replied", !.reply = g.reply]
                ELSE IF /\ failed
                        /\ Waits(c, callers[c].calls)
                        /\ <<c, callers[c].calls>> \in PortsIn(actors[a].mailbox)
                THEN [callers[c] EXCEPT !.port = "dropped"]
                ELSE callers[c]]
    /\ UNCHANGED <<overflow_checks, calcVars, mode, done, log>>

Next ==
    \/ \E c \in Callers : \E call \in NextCalls(c) :
          call.op = "apply_event" /\ ApplyEventLookup(c, call.account, call.payload)
    \/ \E c \in Callers : ApplyEventSpawn(c)
    \/ \E c \in Callers : ApplyEventSend(c)
    \/ \E c \in Callers : \E call \in NextCalls(c) :
          call.op = "get_balance" /\ GetBalanceLookup(c, call.account)
    \/ \E c \in Callers : CallSend(c)
    \/ \E c \in Callers : CallReturn(c)
    \/ \E c \in Callers : \E call \in NextCalls(c) :
          call.op = "spawn" /\ Spawn(c, call.account)
    \/ \E a \in ActorIds : BeginHandle(a)
    \/ \E a \in ActorIds : EndHandle(a)

Spec == AcctInit /\ [][Next]_vars

\* A caller that can go on does: its send is synchronous code, and the timer
\* of call_t! fires when no reply came.  Nothing is assumed of the actors:
\* a handler may take arbitrarily long.
FairSpec ==
    /\ Spec
    /\ \A c \in Callers : WF_vars(CallSend(c))
    /\ \A c \in Callers : WF_vars(CallReturn(c))

(***************************************************************************)
(* Claims about ch1-calculator                                             *)
(***************************************************************************)
Last(s) == s[Len(s)]
CalcNoFault == \A i \in 1 .. Len(calc_log) : calc_log[i].result # "fault"
\* the step is an invocation of Calculator::handle on the command at the head
CalcHandles(command) ==
    /\ calc_mailbox # <<>>
    /\ Head(calc_mailbox) = command
    /\ calc_log' # calc_log

\* C3: whatever the state value, handling Div { value: 0 } produces no event
\* and leaves the state value exactly as it was before the message.
C3_DivZeroLeavesState ==
    [][CalcHandles(Div(0)) =>
          /\ value' = value
          /\ Last(calc_log').event = NoEvent
          /\ Last(calc_log').result = "rejected"]_vars

\* Div 0 has been handled in a state whose value was not the initial one
C3_Witness ==
    \E i \in 1 .. Len(calc_log) :
        /\ calc_log[i].command = Div(0)
        /\ calc_log[i].before # 0
        /\ value = calc_log[i].before

\* the number of commands enqueued so far
CalcSent == calc_next - 1
\* a command was rejected and a command enqueued after it is still to be handled
CalcPendingAfterRejection ==
    /\ \E i \in 1 .. Len(calc_log) : calc_log[i].result = "rejected"
    /\ Len(calc_log) < CalcSent
\* every command enqueued so far has been handled, or a handler invocation panicked
CalcCaughtUp == Len(calc_log) = CalcSent \/ ~CalcNoFault

\* C4: a domain error does not terminate the actor.  Handling a rejected
\* command returns Ok(()): the actor keeps its status and the rest of its
\* mailbox; and every message enqueued after the rejected one is still
\* handled (the handler is invoked on it), unless the handler invocation of
\* one of those later messages itself panics.
C4_RejectionKeepsActor ==
    /\ [][CalcHandles(Div(0)) =>
            /\ Last(calc_log').result = "rejected"
            /\ calc_status' = calc_status
            /\ calc_status' \in {"running", "draining"}
            /\ calc_mailbox' = Tail(calc_mailbox)]_vars
    /\ (CalcPendingAfterRejection ~> CalcCaughtUp)

\* a command rejected, and a command enqueued after it handled successfully
C4_Witness ==
    \E i \in 1 .. Len(calc_log) : \E j \in 1 .. Len(calc_log) :
        /\ i < j
        /\ calc_log[i].result = "rejected"
        /\ calc_log[j].result = "ok"
        /\ calc_status \in {"running", "draining"}

\* the effect of one command on the value, as the claim states it, in
\* 64-bit two's complement arithmetic
FoldStep(v, command) ==
    CASE command.op = "Add" -> Wrap(v + command.value)
      [] command.op = "Sub" -> Wrap(v - command.value)
      [] command.op = "Mul" -> Wrap(v * command.value)
      [] command.op = "Div" ->
            IF command.value = 0 THEN v ELSE TruncDiv(v, command.value)

RECURSIVE FoldCmds(_, _)
FoldCmds(v, cmds) ==
    IF cmds = <<>> THEN v ELSE FoldCmds(FoldStep(v, Head(cmds)), Tail(cmds))

LiveRegistered(n) ==
    {a \in ActorIds :
        actors[a].status = "running" /\ [name |-> via(n), actor |-> a] \in registry}
\* the actors ever spawned for an account that have terminated
Terminated(n) ==
    {a \in ActorIds : actors[a].status = "stopped" /\ actors[a].name = via(n)}
\* every call made so far on an account is an apply_event
OnlyApplyEvents(n) ==
    /\ \A c \in Callers : \A i \in 1 .. Len(done[c]) :
          done[c][i].account = n => done[c][i].op = "apply_event"
    /\ \A c \in Callers : callers[c].account = n => callers[c].op = "apply_event"

\* C1: when only apply_event calls are made for an account that starts
\* unregistered, whatever their interleaving, there is one live actor for
\* the account, every call succeeds and every call has enqueued its event
\* to that actor.  (No handler fault is involved: no actor of the account
\* has terminated.)
C1_EveryCallerSucceeds ==
    \A n \in Accounts :
        (OnlyApplyEvents(n) /\ Terminated(n) = {}) =>
            /\ Cardinality(LiveRegistered(n)) <= 1
            /\ \A c \in Callers : \A i \in 1 .. Len(done[c]) :
                  done[c][i].account = n =>
                      /\ done[c][i].result.kind = "Ok"
                      /\ done[c][i].actor \in LiveRegistered(n)
                      /\ \E k \in 1 .. Len(log[done[c][i].actor]) :
                            /\ log[done[c][i].actor][k].from = c
                            /\ log[done[c][i].actor][k].call = i

\* C2: in every reachable state at most one registration exists under the
\* key of an account number, and at most one running actor carries that name.
C2_OneRegistrationPerName ==
    \A n \in Accounts :
        /\ Cardinality({e \in registry : e.name = via(n)}) <= 1
        /\ Cardinality(LiveRegistered(n)) <= 1
        /\ Cardinality({a \in ActorIds :
              actors[a].status = "running" /\ actors[a].name = via(n)}) <= 1

\* two callers raced to spawn the same account: one spawn was refused and
\* the account is registered once
C2_Witness ==
    \E n \in Accounts : \E c \in Callers : \E i \in 1 .. Len(done[c]) :
        /\ done[c][i].account = n
        /\ done[c][i].result.kind = "SpawnErr"
        /\ Cardinality(LiveRegistered(n)) = 1

\* the effect of the ApplyEvent messages of a sequence of messages on a
\* balance, as the claims state it, in 64-bit two's complement arithmetic
RECURSIVE NetEffect(_, _)
NetEffect(balance, msgs) ==
    IF msgs = <<>> THEN balance
    ELSE LET m == Head(msgs)
             b == IF m.type # "ApplyEvent" THEN balance
                  ELSE IF m.payload.kind = "AmountDeposited"
                       THEN Wrap(balance + m.payload.value)
                       ELSE Wrap(balance - m.payload.value)
         IN NetEffect(b, Tail(msgs))

\* the place in an actor's log of the message of caller c's call number k
PosIn(a, c, k) ==
    CHOOSE i \in 1 .. Len(log[a]) : log[a][i].from = c /\ log[a][i].call = k
IsIn(a, c, k) ==
    \E i \in 1 .. Len(log[a]) : log[a][i].from = c /\ log[a][i].call = k

\* caller c's call number k is a get_balance that follows, in the same
\* caller, only apply_event calls for the same account, all returned Ok
QueryAfterEvents(c, k) ==
    /\ k > 1
    /\ k <= Len(done[c])
    /\ done[c][k].op = "get_balance"
    /\ \A i \in 1 .. (k - 1) :
          /\ done[c][i].op = "apply_event"
          /\ done[c][i].account = done[c][k].account
          /\ done[c][i].result.kind = "Ok"

\* no caller but c has sent a message to an actor of the account
OnlySender(c, n) ==
    \A a \in ActorIds : \A i \in 1 .. Len(log[a]) :
        log[a][i].account = n => log[a][i].from = c

MaxCallNo == Len(MainCalls) + MaxCalls

\* C6 as stated: a get_balance that a caller issues after its apply_event
\* calls for the account returns Some(balance), the balance reflecting every
\* one of those events; Deposit 100, FeeApplied 5, get_balance on an account
\* nobody else uses returns Some(95).
C6_QueryReturnsBalance ==
    \A c \in Callers : \A k \in 1 .. MaxCallNo :
        QueryAfterEvents(c, k) =>
            LET r == done[c][k] IN
            /\ r.result.kind = "Ok"
            /\ r.result.some
            /\ IsIn(r.actor, c, k)
            /\ r.result.value =
                  NetEffect(0, SubSeq(log[r.actor], 1, PosIn(r.actor, c, k) - 1))
            /\ \A i \in 1 .. (k - 1) :
                  /\ IsIn(r.actor, c, i)
                  /\ PosIn(r.actor, c, i) < PosIn(r.actor, c, k)
            /\ ( /\ k = 3
                 /\ done[c][1].payload = AmountDeposited(100)
                 /\ done[c][2].payload = FeeApplied(5)
                 /\ OnlySender(c, r.account) ) => r.result = Ok(TRUE, 95)

\* C6 as amended: such a get_balance returns Ok or a Timeout or closed-channel
\* or send error.  When it returns a balance, the balance is the net effect
\* of everything enqueued before the query to the actor that answered, which
\* includes every one of the caller's events that this actor received: all
\* of them unless an actor of the account has terminated.  It returns None
\* only if an actor of the account has terminated.  Deposit 100, FeeApplied 5,
\* get_balance on an account nobody else uses returns Some(95) or a Timeout.
C6_QueryReflectsEvents ==
    \A c \in Callers : \A k \in 1 .. MaxCallNo :
        QueryAfterEvents(c, k) =>
            LET r == done[c][k] IN
            /\ r.result.kind \in {"Ok", "Timeout", "ChannelClosed", "SendErr"}
            /\ (r.result.kind = "Ok" /\ r.result.some) =>
                  /\ IsIn(r.actor, c, k)
                  /\ r.result.value =
                        NetEffect(0, SubSeq(log[r.actor], 1, PosIn(r.actor, c, k) - 1))
                  /\ \A i \in 1 .. (k - 1) :
                        done[c][i].actor = r.actor =>
                            /\ IsIn(r.actor, c, i)
                            /\ PosIn(r.actor, c, i) < PosIn(r.actor, c, k)
                  /\ Terminated(r.account) = {} =>
                        \A i \in 1 .. (k - 1) : done[c][i].actor = r.actor
            /\ (r.result.kind = "Ok" /\ ~r.result.some) => Terminated(r.account) # {}
            /\ ( /\ k = 3
                 /\ done[c][1].payload = AmountDeposited(100)
                 /\ done[c][2].payload = FeeApplied(5)
                 /\ OnlySender(c, r.account) ) =>
                     r.result \in {Ok(TRUE, 95), Err("Timeout")}

\* inner() alone on ACCOUNT1: Deposit 100, FeeApplied 5, and get_balance has
\* returned Some(95)
C6_Witness ==
    /\ mode = "main"
    /\ QueryAfterEvents(1, 3)
    /\ OnlySender(1, "ACCOUNT1")
    /\ done[1][3].result = Ok(TRUE, 95)

\* the step starts a get_balance of caller c for account n
GetBalanceStarts(c, n) ==
    /\ callers[c].pc = "idle"
    /\ callers'[c].calls = callers[c].calls + 1
    /\ \/ callers'[c].op = "get_balance" /\ callers'[c].account = n
       \/ /\ Len(done'[c]) = Len(done[c]) + 1
          /\ Last(done'[c]).op = "get_balance"
          /\ Last(done'[c]).account = n

\* C7: a get_balance for an account number with no live registered actor
\* returns Ok(None) at once, and leaves the registry and the actors as they
\* were.
C7_QueryOfUnregistered ==
    [][\A c \in Callers : \A n \in Accounts :
          (GetBalanceStarts(c, n) /\ LiveRegistered(n) = {}) =>
              /\ Len(done'[c]) = Len(done[c]) + 1
              /\ Last(done'[c]).result = Ok(FALSE, 0)
              /\ callers'[c].pc = "idle"
              /\ registry' = registry
              /\ actors' = actors]_vars

\* get_balance returned None for an account while another account is registered
C7_Witness ==
    \E c \in Callers : \E i \in 1 .. Len(done[c]) :
        /\ done[c][i].op = "get_balance"
        /\ done[c][i].result = Ok(FALSE, 0)
        /\ LiveRegistered(done[c][i].account) = {}
        /\ registry # {}

\* caller c is in call_t!: it found the account registered
InCall(c) == callers[c].pc \in {"call", "wait"}

\* C8: a get_balance that found its account registered returns: with the
\* reply, with a Timeout error, or with an error saying the actor is gone
\* (the send failed, or the reply port was dropped); and while a caller
\* waits, the actor it waits for can take its next message.
C8_CallReturns ==
    /\ \A c \in Callers : InCall(c) ~> ~InCall(c)
    /\ [][\A c \in Callers :
            (InCall(c) /\ ~InCall(c)') =>
                /\ Len(done'[c]) = Len(done[c]) + 1
                /\ Last(done'[c]).op = "get_balance"
                /\ \/ Last(done'[c]).result.kind = "Ok" /\ Last(done'[c]).result.some
                   \/ Last(done'[c]).result.kind \in {"Timeout", "ChannelClosed", "SendErr"}]_vars
    /\ [](\A c \in Callers : \A a \in ActorIds :
            ( /\ callers[c].pc = "wait"
              /\ callers[c].actor = a
              /\ actors[a].status = "running"
              /\ actors[a].mailbox # <<>>
              /\ actors[a].inflight = <<>>
              /\ SumInFlight(ActorIds) < NumWorkers ) => ENABLED BeginHandle(a))

\* a call has returned a Timeout, and the actor has handled the message of
\* another sender while a caller was waiting for it
C8_Witness ==
    /\ \E c \in Callers : \E i \in 1 .. Len(done[c]) : done[c][i].result.kind = "Timeout"
    /\ \E c \in Callers : \E a \in ActorIds :
          /\ callers[c].pc = "wait"
          /\ callers[c].actor = a
          /\ actors[a].inflight # <<>>
          /\ Head(actors[a].inflight).from # c

\* C9: at most one invocation of an actor's handle is in flight at any
\* instant.
C9_OneHandlerPerActor ==
    \A a \in ActorIds : InFlight(a) <= 1

\* the handlers of two actors run at once, one of them with a message waiting
C9_Witness ==
    \E a \in ActorIds : \E b \in ActorIds \ {a} :
        /\ InFlight(a) = 1
        /\ InFlight(b) = 1
        /\ actors[a].mailbox # <<>>

\* C10: every balance written to a reply port, and so every balance
\* get_balance returns, is the initial balance 0 plus the net effect of the
\* ApplyEvent messages enqueued to the answering actor before the query:
\* all of them, each applied whole, and none enqueued after it.
C10_ReplyIsPrefixBalance ==
    /\ \A r \in replies :
          /\ r.pos <= Len(log[r.actor])
          /\ log[r.actor][r.pos].type = "GetBalance"
          /\ log[r.actor][r.pos].from = r.to
          /\ log[r.actor][r.pos].call = r.call
          /\ r.value = NetEffect(0, SubSeq(log[r.actor], 1, r.pos - 1))
    /\ \A c \in Callers : \A k \in 1 .. Len(done[c]) :
          (done[c][k].op = "get_balance" /\ done[c][k].result.kind = "Ok"
             /\ done[c][k].result.some) =>
              \E r \in replies :
                  /\ r.to = c
                  /\ r.call = k
                  /\ r.actor = done[c][k].actor
                  /\ r.value = done[c][k].result.value

\* a reply that reflects the event of another sender, enqueued before the
\* query, and not the event enqueued after it
C10_Witness ==
    \E r \in replies :
        /\ \E i \in 1 .. (r.pos - 1) :
              log[r.actor][i].type = "ApplyEvent" /\ log[r.actor][i].from # r.to
        /\ r.value # 0
        /\ r.delivered

\* the messages actor a has handled so far: those enqueued to it that are
\* neither waiting in its mailbox nor in flight
Handled(a) ==
    SubSeq(log[a], 1, Len(log[a]) - Len(actors[a].mailbox) - Len(actors[a].inflight))

\* the sum the claim states, in unbounded integers: deposits count
\* positive, withdrawals and fees negative
RECURSIVE SumOfPayloads(_)
SumOfPayloads(msgs) ==
    IF msgs = <<>> THEN 0
    ELSE LET m == Head(msgs)
             d == IF m.type # "ApplyEvent" THEN 0
                  ELSE IF m.payload.kind = "AmountDeposited"
                       THEN m.payload.value
                       ELSE 0 - m.payload.value
         IN d + SumOfPayloads(Tail(msgs))

\* C11: the balance of a running AccountBalance actor is 0 plus the sum of
\* the deposited values minus the sum of the withdrawn values minus the sum
\* of the fee values of the ApplyEvent messages it has handled, every event
\* having changed the balance by exactly its own payload.
C11_BalanceIsSum ==
    \A a \in ActorIds :
        actors[a].status = "running" =>
            actors[a].balance = 0 + SumOfPayloads(Handled(a))

\* the step is the return of actor a's handler from a GetBalance message
HandlesGetBalance(a) ==
    /\ actors[a].inflight # <<>>
    /\ Head(actors[a].inflight).type = "GetBalance"
    /\ actors'[a].inflight # actors[a].inflight

\* C12: handling a GetBalance message changes nothing of the actor but the
\* end of the invocation: balance, status, name, mailbox and registration are
\* as before, no other actor changes, and one value, the current balance, is
\* written to the message's reply port; no reply port is ever written twice.
C12_GetBalanceMutatesNothing ==
    /\ [][\A a \in ActorIds :
            HandlesGetBalance(a) =>
                /\ actors' = [actors EXCEPT ![a].inflight = Tail(@)]
                /\ registry' = registry
                /\ log' = log
                /\ Cardinality(replies' \ replies) = 1
                /\ \A r \in replies' \ replies :
                      /\ r.actor = a
                      /\ r.value = actors[a].balance
                      /\ r.to = Head(actors[a].inflight).from
                      /\ r.call = Head(actors[a].inflight).call]_vars
    /\ [](\A r \in replies : \A q \in replies :
            (r.to = q.to /\ r.call = q.call) => r = q)

\* a GetBalance was answered with a balance that is not the initial one, and
\* the actor still has that balance
C12_Witness ==
    \E r \in replies :
        /\ r.value # 0
        /\ actors[r.actor].balance = r.value
        /\ actors[r.actor].status = "running"

\* caller c's call number k has returned a Timeout
TimedOut(c, k) == k <= Len(done[c]) /\ done[c][k].result.kind = "Timeout"

\* C13: when the caller of a GetBalance has timed out before the actor
\* handles the message, the reply is written to nobody: no caller's state and
\* no result changes, the handler returns Ok (the actor keeps running, with
\* its registration), balance and mailbox are as before, and the actor can
\* take its next message.
C13_LateReplyDiscarded ==
    /\ [][\A a \in ActorIds :
            ( /\ HandlesGetBalance(a)
              /\ TimedOut(Head(actors[a].inflight).from, Head(actors[a].inflight).call) ) =>
                /\ callers' = callers
                /\ done' = done
                /\ registry' = registry
                /\ actors'[a].status = "running"
                /\ actors'[a].balance = actors[a].balance
                /\ actors'[a].mailbox = actors[a].mailbox
                /\ actors'[a].inflight = <<>>
                /\ \A r \in replies' \ replies : ~r.delivered]_vars
    /\ [](\A a \in ActorIds :
            ( /\ \E r \in replies : r.actor = a /\ ~r.delivered
              /\ actors[a].status = "running"
              /\ actors[a].mailbox # <<>>
              /\ actors[a].inflight = <<>>
              /\ SumInFlight(ActorIds) < NumWorkers ) => ENABLED BeginHandle(a))

\* a reply was written after its caller had timed out, and the actor has
\* since handled a message enqueued after that query
C13_Witness ==
    \E r \in replies :
        /\ ~r.delivered
        /\ TimedOut(r.to, r.call)
        /\ actors[r.actor].status = "running"
        /\ Len(Handled(r.actor)) > r.pos

\* the step is the return of AccountBalance::spawn, called by caller c for
\* account n: directly, or from apply_event after its lookup missed
SpawnReturns(c, n) ==
    \/ /\ callers[c].pc = "spawn"
       /\ callers[c].account = n
       /\ callers'[c].pc # "spawn"
    \/ /\ Len(done'[c]) = Len(done[c]) + 1
       /\ Last(done'[c]).op = "spawn"
       /\ Last(done'[c]).account = n

\* C14: AccountBalance::spawn for an account number whose name is registered
\* to a live actor fails with the name-collision spawn error; the registry
\* and every actor (status, mailbox, balance) are as before, and no actor
\* starts.
C14_SpawnCollisionFails ==
    [][\A c \in Callers : \A n \in Accounts :
          (SpawnReturns(c, n) /\ LiveRegistered(n) # {}) =>
              /\ Len(done'[c]) = Len(done[c]) + 1
              /\ Last(done'[c]).result = Err("SpawnErr")
              /\ Last(done'[c]).actor = NoActor
              /\ registry' = registry
              /\ actors' = actors
              /\ log' = log]_vars

\* a direct spawn was refused for an account whose actor is live, keeps a
\* balance that is not the initial one, and is the only actor of that name
C14_Witness ==
    \E c \in Callers : \E i \in 1 .. Len(done[c]) :
        /\ done[c][i].op = "spawn"
        /\ done[c][i].result = Err("SpawnErr")
        /\ \E a \in LiveRegistered(done[c][i].account) : actors[a].balance # 0
        /\ Cardinality({a \in ActorIds : actors[a].name = via(done[c][i].account)}) = 1

\* C16: every Div with a non-zero divisor that the calculator handles is
\* accepted and sets the value to the quotient of the value before and the
\* divisor, truncated toward zero, without a handler fault: negative
\* operands and MinI64 / -1 included.
C16_DivTruncates ==
    \A i \in 1 .. Len(calc_log) :
        (calc_log[i].command.op = "Div" /\ calc_log[i].command.value # 0) =>
            /\ calc_log[i].result = "ok"
            /\ calc_log[i].event = [type |-> "DidDiv", value |-> calc_log[i].command.value]
            /\ calc_log[i].after = TruncDiv(calc_log[i].before, calc_log[i].command.value)

\* the commands handled so far, in the order they were handled
CalcHandledCommands == [i \in 1 .. Len(calc_log) |-> calc_log[i].command]
\* the commands waiting in the mailbox
CalcWaiting == SelectSeq(calc_mailbox, LAMBDA m : m # DrainMarker)

\* C15: in the calculator program the commands are handled in send order and
\* none is dropped: what was sent is what was handled followed by what waits
\* in the mailbox; once drain was called the actor terminates only after the
\* last command enqueued before it, the join handle completes and the
\* process exits with success, and exits only after the actor terminated.
\* This holds for inner()'s five commands, none of which can panic, and for
\* any sequence of commands as long as no handler invocation panics.
C15_DrainHandlesAll ==
    /\ [](script = MainScript => (CalcNoFault /\ exit_code # 1))
    /\ [](CalcNoFault =>
            /\ CalcHandledCommands \o CalcWaiting = SubSeq(script, 1, CalcSent)
            /\ exit_code # 1
            /\ calc_status = "stopped" => CalcHandledCommands = script)
    /\ []((calc_pc = "done" /\ exit_code = 0) => calc_status = "stopped")
    /\ (calc_pc = "await" ~> (calc_pc = "done" /\ exit_code = 0))

\* inner() has returned Ok after the actor handled its five commands
C15_Witness ==
    /\ script = MainScript
    /\ calc_pc = "done"
    /\ exit_code = 0
    /\ CalcHandledCommands = MainScript

\* account numbers for the check of the key: those in use, a prefix of them,
\* the empty one and one that contains the separator
AccountNumbers == Accounts \cup {"", "ACCOUNT", "ACCOUNT1/ACCOUNT2"}

\* the step enqueues a message to actor a
Enqueues(a) == log'[a] # log[a]
\* the step is the return of actor a's handler
Handles(a) ==
    /\ actors[a].inflight # <<>>
    /\ actors'[a].inflight # actors[a].inflight
\* the step leaves the actors, mailboxes, logs and registrations of every
\* account but n as they were
OtherAccountsUnchanged(n) ==
    \A other \in Accounts \ {n} :
        /\ \A b \in ActorIds :
              actors[b].name = via(other) =>
                  actors'[b] = actors[b] /\ log'[b] = log[b]
        /\ {e \in registry' : e.name = via(other)}
              = {e \in registry : e.name = via(other)}

\* C17: distinct account numbers have distinct keys; a message is enqueued
\* only to the actor registered under the key of the message's own account
\* number; and neither enqueuing nor handling a message of one account
\* changes the balance, mailbox or registration of another account's actor.
C17_RoutedByOwnKey ==
    /\ [](\A n \in AccountNumbers : \A other \in AccountNumbers :
            n # other => via(n) # via(other))
    /\ [](\A a \in ActorIds : \A i \in 1 .. Len(log[a]) :
            actors[a].name = via(log[a][i].account))
    /\ [][\A a \in ActorIds :
            Enqueues(a) =>
                /\ log'[a] = Append(log[a], Last(log'[a]))
                /\ [name |-> via(Last(log'[a]).account), actor |-> a] \in registry
                /\ \A b \in ActorIds \ {a} : actors'[b] = actors[b] /\ log'[b] = log[b]
                /\ registry' = registry
                /\ OtherAccountsUnchanged(Last(log'[a]).account)]_vars
    /\ [][\A a \in ActorIds :
            Handles(a) =>
                /\ \A b \in ActorIds \ {a} : actors'[b] = actors[b]
                /\ log' = log
                /\ OtherAccountsUnchanged(Head(actors[a].inflight).account)]_vars

\* the actors of two accounts are live and each has handled an event of its
\* own account: their balances differ
C17_Witness ==
    \E a \in LiveRegistered("ACCOUNT1") : \E b \in LiveRegistered("ACCOUNT2") :
        /\ a # b
        /\ Handled(a) # <<>>
        /\ Handled(b) # <<>>
        /\ actors[a].balance # actors[b].balance
        /\ actors[b].balance # 0

\* the places, over all actors, where the message of caller c's call number
\* k was enqueued
EnqueuedAt(c, k) ==
    UNION {{<<a, i>> : i \in {j \in 1 .. Len(log[a]) :
                                 log[a][j].from = c /\ log[a][j].call = k}} :
           a \in ActorIds}

\* the step is the return of an apply_event of caller c
ApplyEventReturns(c) ==
    /\ callers[c].op = "apply_event"
    /\ Len(done'[c]) = Len(done[c]) + 1

\* C18: apply_event is all-or-nothing.  A call that returned Ok has enqueued
\* its event once, to one actor, the one returned by the lookup or the spawn
\* for the event's account; a call that returned an error (the spawn or the
\* send failed) has enqueued it nowhere and its return changed no actor; a
\* call still under way has not enqueued yet; the call goes from the lookup
\* forward to the spawn, the send and the return and never back; and a
\* mailbox holds what was enqueued and not yet taken, each message once.
C18_AllOrNothing ==
    /\ [](\A c \in Callers : \A k \in 1 .. Len(done[c]) :
            done[c][k].op = "apply_event" =>
                IF done[c][k].result.kind = "Ok"
                THEN /\ Cardinality(EnqueuedAt(c, k)) = 1
                     /\ \A p \in EnqueuedAt(c, k) :
                           /\ p[1] = done[c][k].actor
                           /\ log[p[1]][p[2]].type = "ApplyEvent"
                           /\ log[p[1]][p[2]].payload = done[c][k].payload
                           /\ log[p[1]][p[2]].account = done[c][k].account
                           /\ actors[p[1]].name = via(done[c][k].account)
                ELSE /\ EnqueuedAt(c, k) = {}
                     /\ done[c][k].result.kind \in {"SpawnErr", "SendErr"})
    /\ [](\A c \in Callers :
            callers[c].op = "apply_event" => EnqueuedAt(c, callers[c].calls) = {})
    /\ [](\A a \in ActorIds :
            actors[a].status = "running" =>
                Handled(a) \o actors[a].inflight \o actors[a].mailbox = log[a])
    /\ [][\A c \in Callers :
            (ApplyEventReturns(c) /\ Last(done'[c]).result.kind # "Ok") =>
                actors' = actors /\ log' = log /\ registry' = registry]_vars
    /\ [][\A c \in Callers :
            /\ callers[c].pc = "spawn" => callers'[c].pc \in {"spawn", "send", "idle"}
            /\ callers[c].pc = "send" => callers'[c].pc \in {"send", "idle"}
            /\ callers[c].pc # "idle" => callers'[c].calls = callers[c].calls]_vars

\* one apply_event failed in its send, the actor having terminated after
\* the lookup, and another enqueued its event
C18_Witness ==
    /\ \E c \in Callers : \E k \in 1 .. Len(done[c]) :
          /\ done[c][k].op = "apply_event"
          /\ done[c][k].result.kind = "SendErr"
          /\ EnqueuedAt(c, k) = {}
    /\ \E c \in Callers : \E k \in 1 .. Len(done[c]) :
          /\ done[c][k].op = "apply_event"
          /\ done[c][k].result.kind = "Ok"
          /\ Cardinality(EnqueuedAt(c, k)) = 1

====
